---------------------------- MODULE Spec2Model ----------------------------
(***************************************************************************)
(* The CloudWatch Logs output plugin of the agent                          *)
(* (plugins/outputs/cloudwatchlogs/cloudwatchlogs.go): the router from a   *)
(* Target to its cwDest, the classification of a telegraf metric into a   *)
(* log event, the PLAIN -> EMF mode switch and the enqueue discipline.     *)
(*                                                                         *)
(* A Go string is a finite sequence of tokens (each token a TLA+ string    *)
(* standing for a run of characters that none of the string functions of  *)
(* the code ever cuts): strings.HasPrefix, HasSuffix, Contains and Split   *)
(* are computed on these sequences.  "" is << >>.                          *)
(*                                                                         *)
(* Callers are goroutines.  One step of a caller is one access to shared   *)
(* memory (the map cwDests, a cwDest's fields, its mutex, its pusher)      *)
(* together with the local computation that follows it.                    *)
(***************************************************************************)
EXTENDS Integers, Sequences, FiniteSets, TLC

(***************************************************************************)
(* Bounds of the model.                                                    *)
(***************************************************************************)
\* number of concurrent callers (goroutines)
NumProcs == 2
\* total number of calls in a behaviour, and of calls of one operation
MaxCalls == 3
MaxPerOp == 1
\* longest slice handed to Write or Publish
MaxBatch == 2
\* capacity of a pusher's event queue
QueueCap == 1

Procs == 1..NumProcs

(***************************************************************************)
(* Strings.                                                                *)
(***************************************************************************)
Str(tok) == <<tok>>

Quote == "\""

\* strings.HasPrefix(s, prefix)
HasPrefix(s, prefix) ==
    /\ Len(prefix) <= Len(s)
    /\ SubSeq(s, 1, Len(prefix)) = prefix

\* strings.HasSuffix(s, suffix)
HasSuffix(s, suffix) ==
    /\ Len(suffix) <= Len(s)
    /\ SubSeq(s, Len(s) - Len(suffix) + 1, Len(s)) = suffix

\* strings.Contains(s, substr)
Contains(s, substr) ==
    \E i \in 0..(Len(s) - Len(substr)) : SubSeq(s, i + 1, i + Len(substr)) = substr

\* strings.Split(s, sep) for a one-token separator: the pieces between the
\* separators, in order (Split of "" is the single piece "").
RECURSIVE SplitFrom(_, _, _)
SplitFrom(s, sep, cur) ==
    IF s = << >> THEN <<cur>>
    ELSE IF Head(s) = sep THEN <<cur>> \o SplitFrom(Tail(s), sep, << >>)
    ELSE SplitFrom(Tail(s), sep, Append(cur, Head(s)))

Split(s, sep) == SplitFrom(s, sep, << >>)

(***************************************************************************)
(* Constants of the plugin.                                                *)
(***************************************************************************)
LogGroupNameTag == Str("log_group_name")
LogStreamNameTag == Str("log_stream_name")
LogEntryField == Str("value")
attributesInFields == Str("attributesInFields")

\* 14*24*time.Hour + 10*time.Minute and 2*time.Minute, in minutes
maxRetryTimeout == 14 * 24 * 60 + 10
metricRetryTimeout == 2

\* the plugin's configuration (sampleConfig/log_ecs_metric_only.conf sets
\* log_stream_name and leaves log_group_name unset)
LogGroupName == << >>
LogStreamName == Str("fake-host-name")

\* the literal Publish looks for: "CloudWatchMetrics" with its quotes
EMFMarker == <<Quote, "CloudWatchMetrics", Quote>>

\* the header switchToEMF adds to the client's Build handlers
EMFHeader == "x-amzn-logs-format"

\* logs.ErrOutputStopped and the nil error
ErrOutputStopped == "ErrOutputStopped"
NilErr == "nil"

Target(group, stream) == [Group |-> group, Stream |-> stream]

(***************************************************************************)
(* telegraf.Metric: tags (string -> string), typed fields, a timestamp.    *)
(* A field value is [ty, n, s]: its Go type, its number (numbers, bools    *)
(* as 0/1, time.Time in milliseconds) and its text (strings; "NaN" for a   *)
(* float64 that is not a number).                                          *)
(***************************************************************************)
Val(ty, n, s) == [ty |-> ty, n |-> n, s |-> s]
IntV(n) == Val("int64", n, << >>)
FloatV(n) == Val("float64", n, << >>)
StrV(s) == Val("string", 0, s)

Metric(name, tags, fields, time) ==
    [name |-> name, tags |-> tags, fields |-> fields, time |-> time]

\* the empty map
NoMap == [k \in {} |-> << >>]

\* m[k] = v added to (or replaced in) map m
Put(m, k, v) == [x \in (DOMAIN m) \cup {k} |-> IF x = k THEN v ELSE m[x]]

\* delete(m, k)
Del(m, k) == [x \in (DOMAIN m) \ {k} |-> m[x]]

\* metric.RemoveTag(key), metric.RemoveField(key)
RemoveTag(m, key) == [m EXCEPT !.tags = Del(m.tags, key)]
RemoveField(m, key) == [m EXCEPT !.fields = Del(m.fields, key)]


(***************************************************************************)
(* Record classifier.                                                      *)
(***************************************************************************)
\* getTargetFromMetric without the two m.RemoveTag calls
getTargetFromMetric_keepTags(m) ==
    IF LogGroupNameTag \notin DOMAIN m.tags
    THEN [t |-> Target(<< >>, << >>), err |-> TRUE, m |-> m]
    ELSE [t |-> Target(m.tags[LogGroupNameTag],
                       IF LogStreamNameTag \in DOMAIN m.tags
                       THEN m.tags[LogStreamNameTag] ELSE LogStreamName),
          err |-> FALSE, m |-> m]

\* getTargetFromMetric: the Target, whether an error is returned, and the
\* metric after the RemoveTag calls.
getTargetFromMetric(m) ==
    IF LogGroupNameTag \notin DOMAIN m.tags
    THEN [t |-> Target(<< >>, << >>), err |-> TRUE, m |-> m]
    ELSE LET logGroup == m.tags[LogGroupNameTag]
             m1 == RemoveTag(m, LogGroupNameTag)
         IN  IF LogStreamNameTag \in DOMAIN m.tags
             THEN [t |-> Target(logGroup, m.tags[LogStreamNameTag]),
                   err |-> FALSE,
                   m |-> RemoveTag(m1, LogStreamNameTag)]
             ELSE [t |-> Target(logGroup, LogStreamName), err |-> FALSE, m |-> m1]

\* the type switch of getLogEventFromMetric: the cases it converts
SupportedType(ty) ==
    ty \in {"int", "int32", "int64", "uint", "uint32", "uint64",
            "float64", "bool", "string", "time.Time"}

\* one case of the type switch: integers become float64, a time.Time becomes
\* float64(t.Unix()), float64, bool and string are kept
ConvertField(v) ==
    CASE v.ty \in {"int", "int32", "int64", "uint", "uint32", "uint64"} ->
             Val("float64", v.n, << >>)
      [] v.ty = "time.Time" -> Val("float64", v.n \div 1000, << >>)
      [] OTHER -> v

\* PromoteAttributes with the conversion of the type switch applied to the
\* promoted value
RECURSIVE PromoteAttributes_converted(_, _, _)
PromoteAttributes_converted(attributes, mFields, content) ==
    IF attributes = << >> THEN content
    ELSE LET attr == Head(attributes)
         IN  PromoteAttributes_converted(Tail(attributes), mFields,
                 IF attr \in DOMAIN mFields
                 THEN Put(content, attr, ConvertField(mFields[attr]))
                 ELSE content)

\* the loop over attributesInFields: every listed name that is a field of
\* mFields goes into content with the field's value
RECURSIVE PromoteAttributes(_, _, _)
PromoteAttributes(attributes, mFields, content) ==
    IF attributes = << >> THEN content
    ELSE LET attr == Head(attributes)
         IN  PromoteAttributes(Tail(attributes), mFields,
                 IF attr \in DOMAIN mFields
                 THEN Put(content, attr, mFields[attr])
                 ELSE content)

\* metric.RemoveField(attr) for every listed name that is a field
RemoveAttributes(fields, attributes) ==
    [k \in (DOMAIN fields) \ {attributes[i] : i \in 1..Len(attributes)} |-> fields[k]]

\* "for k := range tags { content[k] = tags[k] }"
CopyTags(tags, content) ==
    [k \in (DOMAIN content) \cup (DOMAIN tags) |->
        IF k \in DOMAIN tags THEN StrV(tags[k]) ELSE content[k]]

\* ConvertFields with "continue" in place of "return nil" in the default case
RECURSIVE ConvertFields_skip(_, _, _)
ConvertFields_skip(order, fields, content) ==
    IF order = << >> THEN [ok |-> TRUE, content |-> content]
    ELSE LET k == Head(order)
         IN  ConvertFields_skip(Tail(order), fields,
                 IF SupportedType(fields[k].ty)
                 THEN Put(content, k, ConvertField(fields[k]))
                 ELSE content)

\* "for k, v := range metric.Fields()" visiting the fields in the sequence
\* order: ok = FALSE is the "return nil" of the default case
RECURSIVE ConvertFields(_, _, _)
ConvertFields(order, fields, content) ==
    IF order = << >> THEN [ok |-> TRUE, content |-> content]
    ELSE LET k == Head(order)
         IN  IF ~SupportedType(fields[k].ty)
             THEN [ok |-> FALSE, content |-> content]
             ELSE ConvertFields(Tail(order), fields,
                                Put(content, k, ConvertField(fields[k])))

\* encoding/json on one value of the content map: ok = FALSE is
\* json.UnsupportedValueError (a float that is not a number)
MarshalValue(v) ==
    CASE v.ty = "string" -> [ok |-> TRUE, toks |-> <<Quote>> \o v.s \o <<Quote>>]
      [] v.ty = "bool" ->
             [ok |-> TRUE, toks |-> IF v.n = 0 THEN <<"false">> ELSE <<"true">>]
      [] v.ty = "time.Time" ->
             [ok |-> TRUE, toks |-> <<Quote, "T", ToString(v.n), Quote>>]
      [] OTHER ->
             IF v.s = Str("NaN") THEN [ok |-> FALSE, toks |-> << >>]
             ELSE [ok |-> TRUE, toks |-> <<ToString(v.n)>>]

\* every key the sample metrics can put into a content map, in the byte
\* order in which encoding/json writes the keys of a map
KeyOrder ==
    << Str("InstanceId"), Str("attributesInFields"), Str("cpu_usage_idle"),
       Str("log_group_name"), Str("log_stream_name"), Str("raw"),
       Str("started"), Str("value") >>

RECURSIVE MarshalKeys(_, _, _)
MarshalKeys(keys, content, first) ==
    IF keys = << >> THEN << >>
    ELSE LET k == Head(keys)
         IN  IF k \notin DOMAIN content
             THEN MarshalKeys(Tail(keys), content, first)
             ELSE (IF first THEN << >> ELSE <<",">>)
                  \o <<Quote>> \o k \o <<Quote, ":">>
                  \o MarshalValue(content[k]).toks
                  \o MarshalKeys(Tail(keys), content, FALSE)

\* json.Marshal(content): err, and the bytes (nil on an error)
Marshal(content) ==
    IF \E k \in DOMAIN content : ~MarshalValue(content[k]).ok
    THEN [err |-> TRUE, bytes |-> << >>]
    ELSE [err |-> FALSE,
          bytes |-> <<"{">> \o MarshalKeys(KeyOrder, content, TRUE) \o <<"}">>]

\* a *structuredLogEvent, or nil
Event(msg, t) == [nil |-> FALSE, msg |-> msg, t |-> t]
NilEvent == [nil |-> TRUE, msg |-> << >>, t |-> 0]

\* getLogEventFromMetric without the branch for the "value" field: the raw
\* value goes through the metric branch like any other field
getLogEventFromMetric_noRaw(metric, order) ==
    LET conv == ConvertFields(order, metric.fields, CopyTags(metric.tags, NoMap))
    IN  IF ~conv.ok THEN NilEvent
        ELSE Event(Marshal(conv.content).bytes, metric.time)

\* getLogEventFromMetric with a "value" field that is not a string sent
\* through the metric branch in place of "return nil"
getLogEventFromMetric_anyValue(metric, order) ==
    IF LogEntryField \in DOMAIN metric.fields
       /\ metric.fields[LogEntryField].ty = "string"
    THEN Event(metric.fields[LogEntryField].s, metric.time)
    ELSE LET hasAttr == attributesInFields \in DOMAIN metric.tags
             attributes == IF hasAttr
                           THEN Split(metric.tags[attributesInFields], ",")
                           ELSE << >>
             promoted == PromoteAttributes(attributes, metric.fields, NoMap)
             fields == RemoveAttributes(metric.fields, attributes)
             tags == Del(metric.tags, attributesInFields)
             conv == ConvertFields(order, fields, CopyTags(tags, promoted))
         IN  IF ~conv.ok THEN NilEvent
             ELSE Event(Marshal(conv.content).bytes, metric.time)

\* getLogEventFromMetric, with the order in which the range over
\* metric.Fields() visits the fields left after the promotion
getLogEventFromMetric(metric, order) ==
    IF LogEntryField \in DOMAIN metric.fields
    THEN IF metric.fields[LogEntryField].ty = "string"
         THEN Event(metric.fields[LogEntryField].s, metric.time)
         ELSE NilEvent
    ELSE LET hasAttr == attributesInFields \in DOMAIN metric.tags
             attributes == IF hasAttr
                           THEN Split(metric.tags[attributesInFields], ",")
                           ELSE << >>
             promoted == PromoteAttributes(attributes, metric.fields, NoMap)
             fields == RemoveAttributes(metric.fields, attributes)
             tags == Del(metric.tags, attributesInFields)
             conv == ConvertFields(order, fields, CopyTags(tags, promoted))
             json == Marshal(conv.content)
         IN  IF ~conv.ok THEN NilEvent
             ELSE Event(json.bytes, metric.time)

\* the field names left for the range loop of getLogEventFromMetric
RemainingFields(metric) ==
    IF attributesInFields \in DOMAIN metric.tags
    THEN DOMAIN RemoveAttributes(metric.fields,
                                 Split(metric.tags[attributesInFields], ","))
    ELSE DOMAIN metric.fields

\* the orders in which a Go range can visit a set of keys
Orders(S) ==
    {o \in [1..Cardinality(S) -> S] : \A i, j \in 1..Cardinality(S) : o[i] = o[j] => i = j}

\* IsEMFMessage without the strings.HasSuffix test
IsEMFMessage_noSuffix(msg) ==
    /\ HasPrefix(msg, <<"{">>)
    /\ Contains(msg, EMFMarker)

\* the check of Publish: a JSON object that carries the EMF marker
IsEMFMessage(msg) ==
    /\ HasPrefix(msg, <<"{">>)
    /\ HasSuffix(msg, <<"}">>)
    /\ Contains(msg, EMFMarker)

(***************************************************************************)
(* Inputs: the metrics handed to Write and the log events handed to        *)
(* Publish.                                                                *)
(***************************************************************************)
Tags1(k1, v1) == Put(NoMap, k1, v1)
Tags2(k1, v1, k2, v2) == Put(Tags1(k1, v1), k2, v2)

Metrics ==
    << \* a raw log line with both destination tags
       Metric("log", Tags2(LogGroupNameTag, Str("g"), LogStreamNameTag, Str("s")),
              Tags1(LogEntryField, StrV(Str("hello"))), 7),
       \* a metric without a stream tag
       Metric("cpu", Tags1(LogGroupNameTag, Str("g")),
              Tags1(Str("cpu_usage_idle"), FloatV(99)), 8),
       \* a raw log line without the group tag
       Metric("log", Tags1(LogStreamNameTag, Str("s")),
              Tags1(LogEntryField, StrV(Str("hello"))), 9),
       \* a field of a type the type switch does not know
       Metric("cpu", Tags1(LogGroupNameTag, Str("g")),
              Tags2(Str("cpu_usage_idle"), IntV(4), Str("raw"), Val("float32", 1, << >>)),
              10),
       \* the same field, named in attributesInFields
       Metric("cpu", Tags2(LogGroupNameTag, Str("g"), attributesInFields,
                           <<"cpu_usage_idle", ",", "raw">>),
              Tags2(Str("raw"), Val("float32", 1, << >>), Str("started"),
                    Val("time.Time", 2500, << >>)),
              11),
       \* a metric whose stream tag is the empty string
       Metric("cpu", Tags2(LogGroupNameTag, Str("g"), LogStreamNameTag, << >>),
              Tags1(Str("cpu_usage_idle"), IntV(4)), 12),
       \* a float64 that is not a number
       Metric("cpu", Tags1(LogGroupNameTag, Str("g")),
              Tags1(Str("cpu_usage_idle"), Val("float64", 0, Str("NaN"))), 13),
       \* a "value" field that is not a string
       Metric("log", Tags1(LogGroupNameTag, Str("g")),
              Tags1(LogEntryField, IntV(5)), 14),
       \* attributesInFields naming two fields and a name that is no field,
       \* and a tag with the name of one of the two
       Metric("cpu",
              Put(Put(Tags2(LogGroupNameTag, Str("g"), LogStreamNameTag, Str("s")),
                      attributesInFields,
                      <<"cpu_usage_idle", ",", "started", ",", "InstanceId">>),
                  Str("cpu_usage_idle"), Str("busy")),
              Put(Tags2(Str("cpu_usage_idle"), IntV(4), Str("started"),
                        Val("time.Time", 2500, << >>)),
                  Str("raw"), IntV(7)),
              15) >>

\* a logs.LogEvent: Message() and Time()
LogEvents ==
    << Event(<<"{", Quote, "CloudWatchMetrics", Quote, ":", "[]", "}">>, 1),
       Event(Str("hello"), 2),
       Event(<<"{", "CloudWatchMetrics", "}">>, 3),
       Event(<<"{", Quote, "CloudWatchMetrics", Quote>>, 4),
       Event(<<Quote, "CloudWatchMetrics", Quote, "}">>, 5) >>

\* the non-empty slices over a set of indexes, up to MaxBatch long
Slices(S) == UNION {[1..len -> S] : len \in 1..MaxBatch}

\* the inputs of the callers that run concurrently, and of the callers that
\* run one after the other
ConcMetrics == {1}
ConcEvents == 1..Len(LogEvents)
SeqMetrics == 1..Len(Metrics)
SeqEvents == {1, 2}

\* the arguments CreateDest is called with
GroupArgs == {Str("g")}
StreamArgs == {<< >>, Str("s")}

\* the operations a caller can start
Ops == {"CreateDest", "Write", "Publish", "Close", "setRetryer"}

\* the request.Retryer values setRetryer is given
Retryers == {"DefaultRetryer", "CustomRetryer"}

(***************************************************************************)
(* State.                                                                  *)
(***************************************************************************)
VARIABLES
    cwDests,    \* CloudWatchLogs.cwDests: Target -> cwDest (index into dests)
    dests,      \* every cwDest ever constructed, in construction order
    pr,         \* the callers: position in the code and local variables
    held,       \* the cwDests that CreateDest has returned to its callers
    calls,      \* per operation, the number of calls started
    handed,     \* per cwDest, the pusher.AddEvent / AddEventNonBlocking calls
    overlap     \* whether the callers run concurrently or one after the other

vars == <<cwDests, dests, pr, held, calls, handed, overlap>>

\* the values of a map
Range(f) == {f[x] : x \in DOMAIN f}

\* a caller that is not inside a call
IdleFrame ==
    [pc |-> "idle", op |-> "none", t |-> Target(<< >>, << >>), cwd |-> 0,
     metrics |-> << >>, events |-> << >>, i |-> 0,
     m |-> Metric("", NoMap, NoMap, 0), e |-> NilEvent, nonBlocking |-> FALSE,
     seen |-> {}, snap |-> {}, ret |-> "none",
     \* what the caller has met in this call: the serial number of the call,
     \* the mode of the cwDest when getDest returned it, an AddEvent on a
     \* cwDest that was already stopped
     call |-> 0, wasEMF |-> FALSE, afterStop |-> FALSE]

(***************************************************************************)
(* The pusher (pusher.go): NewPusher, the two enqueue calls, Stop and the  *)
(* background flush.                                                       *)
(***************************************************************************)
\* NewPusher(t, client, flushTimeout, retryDuration, log)
NewPusher(t, handlers, retryDuration) ==
    [Target |-> t, Handlers |-> handlers, Retryer |-> "DefaultRetryer",
     RetryDuration |-> retryDuration, queue |-> << >>, pStopped |-> FALSE]

\* pusher.AddEvent: waits for room in the queue or for the pusher to stop
AddEventEnabled(d) == d.pStopped \/ Len(d.queue) < QueueCap
pusherAddEvent(d, e) ==
    IF d.pStopped THEN d ELSE [d EXCEPT !.queue = Append(@, e)]

\* pusher.AddEventNonBlocking: drops the event when the queue is full
pusherAddEventNonBlocking(d, e) ==
    IF d.pStopped \/ Len(d.queue) >= QueueCap THEN d
    ELSE [d EXCEPT !.queue = Append(@, e)]

\* pusher.Stop: the last flush, then no more
pusherStop(d) == [d EXCEPT !.queue = << >>, !.pStopped = TRUE]

(***************************************************************************)
(* The router.                                                             *)
(***************************************************************************)
\* NewCwDest with metricRetryTimeout handed to NewPusher
NewCwDest_metric(t) ==
    [isEMF |-> FALSE, stopped |-> FALSE, mu |-> 0] @@
    NewPusher(t, <<"RequestCompression", "User-Agent">>, metricRetryTimeout)

\* the cwDest getDest constructs on a miss: a client with the compression
\* and User-Agent handlers, a pusher with maxRetryTimeout, PLAIN, running
NewCwDest(t) ==
    [isEMF |-> FALSE, stopped |-> FALSE, mu |-> 0] @@
    NewPusher(t, <<"RequestCompression", "User-Agent">>, maxRetryTimeout)

\* a lookup that never finds the Target
Lookup_miss(t) == 0

\* "if cwd, ok := c.cwDests[t]; ok"
Lookup(t) == IF t \in DOMAIN cwDests THEN cwDests[t] ELSE 0

\* CreateDest's Target: the configured names stand in for empty arguments
CreateDestTarget(group, stream) ==
    Target(IF group = << >> THEN LogGroupName ELSE group,
           IF stream = << >> THEN LogStreamName ELSE stream)

\* the plugin as init() constructs it
Constructed ==
    /\ cwDests = NoMap
    /\ dests = << >>
    /\ pr = [p \in Procs |-> IdleFrame]
    /\ held = {}
    /\ calls = [op \in Ops |-> 0]
    /\ handed = << >>

Init == Constructed /\ overlap = TRUE

InitSeq == Constructed /\ overlap = FALSE

(***************************************************************************)
(* Calls.  A caller that is idle starts a call; the steps below carry it   *)
(* through the code.                                                       *)
(***************************************************************************)
\* the calls started so far
Started == calls["CreateDest"] + calls["Write"] + calls["Publish"]
           + calls["Close"] + calls["setRetryer"]

\* caller p may start a call of op: the bounds leave room for it, and
\* callers that run one after the other wait for each other
MayCall(p, op) ==
    /\ pr[p].pc = "idle"
    /\ Started < MaxCalls
    /\ calls[op] < MaxPerOp
    /\ overlap \/ \A q \in Procs : pr[q].pc = "idle"

\* the inputs of the callers
MetricsIn == IF overlap THEN ConcMetrics ELSE SeqMetrics
EventsIn == IF overlap THEN ConcEvents ELSE SeqEvents

Begin(p, op) ==
    [IdleFrame EXCEPT !.op = op, !.call = Started + 1]

\* NextItem with the range going from the first element straight to the last
NextItem_skip(f) ==
    LET n == IF f.op = "Write" THEN Len(f.metrics) ELSE Len(f.events)
    IN  IF f.i < n
        THEN [f EXCEPT !.i = n,
                       !.pc = IF f.op = "Write" THEN "writeMetric" ELSE "publishCheck"]
        ELSE IF f.op = "Write"
             THEN [f EXCEPT !.pc = "idle", !.ret = NilErr]
             ELSE [f EXCEPT !.pc = "publishReturn"]

\* the statement after the current element of the slice of Write / Publish
NextItem(f) ==
    LET n == IF f.op = "Write" THEN Len(f.metrics) ELSE Len(f.events)
    IN  IF f.i < n
        THEN [f EXCEPT !.i = f.i + 1,
                       !.pc = IF f.op = "Write" THEN "writeMetric" ELSE "publishCheck"]
        ELSE IF f.op = "Write"
             THEN [f EXCEPT !.pc = "idle", !.ret = NilErr]
             ELSE [f EXCEPT !.pc = "publishReturn"]

\* AfterGetDest with writeMetricAsStructuredLog going on without its call
\* of switchToEMF
AfterGetDest_noSwitch(f, d) ==
    LET wasEMF == d <= Len(dests) /\ dests[d].isEMF
    IN  IF f.op = "CreateDest"
        THEN [f EXCEPT !.cwd = d, !.wasEMF = wasEMF, !.pc = "idle", !.ret = "LogDest"]
        ELSE [f EXCEPT !.cwd = d, !.wasEMF = wasEMF, !.pc = "setRetryDuration"]

\* where a caller of getDest goes on with the cwDest d
AfterGetDest(f, d) ==
    LET wasEMF == d <= Len(dests) /\ dests[d].isEMF
    IN  IF f.op = "CreateDest"
        THEN [f EXCEPT !.cwd = d, !.wasEMF = wasEMF, !.pc = "idle", !.ret = "LogDest"]
        ELSE [f EXCEPT !.cwd = d, !.wasEMF = wasEMF, !.pc = "switchToEMF"]

\* where a caller of switchToEMF goes on
AfterSwitch(f) ==
    [f EXCEPT !.pc = IF f.op = "Write" THEN "setRetryDuration" ELSE "AddEvent"]

\* CreateDest(group, stream), up to the lookup of getDest
CreateDest(p, group, stream) ==
    /\ MayCall(p, "CreateDest")
    /\ calls' = [calls EXCEPT !["CreateDest"] = @ + 1]
    /\ LET t == CreateDestTarget(group, stream)
           f == [Begin(p, "CreateDest") EXCEPT !.t = t]
       IN  IF Lookup(t) # 0
           THEN /\ pr' = [pr EXCEPT ![p] = AfterGetDest(f, Lookup(t))]
                /\ held' = held \cup {Lookup(t)}
           ELSE /\ pr' = [pr EXCEPT ![p] = [f EXCEPT !.pc = "getDestCreate"]]
                /\ held' = held
    /\ UNCHANGED <<cwDests, dests, handed, overlap>>

\* Write(metrics): the loop over the slice
Write(p, metrics) ==
    /\ MayCall(p, "Write")
    /\ calls' = [calls EXCEPT !["Write"] = @ + 1]
    /\ pr' = [pr EXCEPT ![p] =
                NextItem([Begin(p, "Write") EXCEPT !.metrics = metrics])]
    /\ UNCHANGED <<cwDests, dests, held, handed, overlap>>

\* cwDest.Publish(events) on a cwDest that CreateDest returned
Publish(p, d, events) ==
    /\ MayCall(p, "Publish")
    /\ calls' = [calls EXCEPT !["Publish"] = @ + 1]
    /\ d \in held
    /\ pr' = [pr EXCEPT ![p] =
                NextItem([Begin(p, "Publish") EXCEPT !.events = events, !.cwd = d])]
    /\ UNCHANGED <<cwDests, dests, held, handed, overlap>>

\* Close(): the range over cwDests starts
Close(p) ==
    /\ MayCall(p, "Close")
    /\ calls' = [calls EXCEPT !["Close"] = @ + 1]
    /\ pr' = [pr EXCEPT ![p] =
                [Begin(p, "Close") EXCEPT !.pc = "closeLoop", !.snap = Range(cwDests)]]
    /\ UNCHANGED <<cwDests, dests, held, handed, overlap>>

\* writeMetricAsStructuredLog: getTargetFromMetric (its error is only
\* logged), then the lookup of getDest
writeMetricAsStructuredLog(p) ==
    /\ pr[p].pc = "writeMetric"
    /\ LET r == getTargetFromMetric(Metrics[pr[p].metrics[pr[p].i]])
           f == [pr[p] EXCEPT !.t = r.t, !.m = r.m]
       IN  pr' = [pr EXCEPT ![p] =
                    IF Lookup(r.t) # 0 THEN AfterGetDest(f, Lookup(r.t))
                    ELSE [f EXCEPT !.pc = "getDestCreate"]]
    /\ UNCHANGED <<cwDests, dests, held, calls, handed, overlap>>

\* a caller whose next step reads or writes the map cwDests
TouchesMap(f) == f.pc \in {"writeMetric", "getDestCreate", "closeLoop"}

\* getDest after a miss: the client, NewPusher, the cwDest and the map
\* write.  The map is not guarded: with another caller at the map, the Go
\* runtime may also end the process ("concurrent map writes").
getDestCreate(p) ==
    /\ pr[p].pc = "getDestCreate"
    /\ \/ LET d == Len(dests) + 1
          IN  /\ dests' = Append(dests, NewCwDest(pr[p].t))
              /\ handed' = Append(handed, << >>)
              /\ cwDests' = Put(cwDests, pr[p].t, d)
              /\ pr' = [pr EXCEPT ![p] = AfterGetDest(pr[p], d)]
              /\ held' = IF pr[p].op = "CreateDest" THEN held \cup {d} ELSE held
       \/ /\ \E q \in Procs \ {p} : TouchesMap(pr[q])
          /\ pr' = [q \in Procs |-> [pr[q] EXCEPT !.pc = "fatal"]]
          /\ UNCHANGED <<cwDests, dests, held, handed, overlap>>
    /\ UNCHANGED <<calls, overlap>>

\* switchToEMF with "cd.isEMF = !cd.isEMF" for the guarded assignment
switchToEMF_toggle(p) ==
    /\ pr[p].pc = "switchToEMF"
    /\ dests[pr[p].cwd].mu = 0
    /\ IF ~dests[pr[p].cwd].isEMF
       THEN /\ dests' = [dests EXCEPT ![pr[p].cwd].isEMF = TRUE, ![pr[p].cwd].mu = p]
            /\ pr' = [pr EXCEPT ![p].pc = "pushHandler"]
       ELSE /\ dests' = [dests EXCEPT ![pr[p].cwd].isEMF = FALSE]
            /\ pr' = [pr EXCEPT ![p] = AfterSwitch(pr[p])]
    /\ UNCHANGED <<cwDests, held, calls, handed, overlap>>

\* switchToEMF without the test "if !cd.isEMF"
switchToEMF_unguarded(p) ==
    /\ pr[p].pc = "switchToEMF"
    /\ dests[pr[p].cwd].mu = 0
    /\ dests' = [dests EXCEPT ![pr[p].cwd].isEMF = TRUE, ![pr[p].cwd].mu = p]
    /\ pr' = [pr EXCEPT ![p].pc = "pushHandler"]
    /\ UNCHANGED <<cwDests, held, calls, handed, overlap>>

\* switchToEMF up to "cd.isEMF = true": Lock, the test, the assignment
\* (already EMF: Lock, the test, Unlock)
switchToEMF(p) ==
    /\ pr[p].pc = "switchToEMF"
    /\ dests[pr[p].cwd].mu = 0
    /\ IF ~dests[pr[p].cwd].isEMF
       THEN /\ dests' = [dests EXCEPT ![pr[p].cwd].isEMF = TRUE, ![pr[p].cwd].mu = p]
            /\ pr' = [pr EXCEPT ![p].pc = "pushHandler"]
       ELSE /\ dests' = dests
            /\ pr' = [pr EXCEPT ![p] = AfterSwitch(pr[p])]
    /\ UNCHANGED <<cwDests, held, calls, handed, overlap>>

\* the rest of switchToEMF: PushBackNamed of the header handler, Unlock
pushHandler(p) ==
    /\ pr[p].pc = "pushHandler"
    /\ dests' = [dests EXCEPT ![pr[p].cwd].Handlers = Append(@, EMFHeader),
                              ![pr[p].cwd].mu = 0]
    /\ pr' = [pr EXCEPT ![p] = AfterSwitch(pr[p])]
    /\ UNCHANGED <<cwDests, held, calls, handed, overlap>>

\* "cwd.pusher.RetryDuration = metricRetryTimeout", then
\* getLogEventFromMetric and the test for nil
setRetryDuration(p) ==
    /\ pr[p].pc = "setRetryDuration"
    /\ dests' = [dests EXCEPT ![pr[p].cwd].RetryDuration = metricRetryTimeout]
    /\ \E order \in Orders(RemainingFields(pr[p].m)) :
          LET e == getLogEventFromMetric(pr[p].m, order)
          IN  pr' = [pr EXCEPT ![p] =
                       IF e.nil THEN NextItem(pr[p])
                       ELSE [pr[p] EXCEPT !.e = e, !.pc = "AddEvent"]]
    /\ UNCHANGED <<cwDests, held, calls, handed, overlap>>

\* Publish, one element of the slice: the unguarded read of isEMF and the
\* test of the message
publishCheck(p) ==
    /\ pr[p].pc = "publishCheck"
    /\ LET e == LogEvents[pr[p].events[pr[p].i]]
       IN  pr' = [pr EXCEPT ![p] =
                    [pr[p] EXCEPT !.e = e,
                        !.pc = IF ~dests[pr[p].cwd].isEMF /\ IsEMFMessage(e.msg)
                               THEN "switchToEMF" ELSE "AddEvent"]]
    /\ UNCHANGED <<cwDests, dests, held, calls, handed, overlap>>

\* cwDest.AddEvent: the unguarded read of isEMF that picks the enqueue call
AddEvent(p) ==
    /\ pr[p].pc = "AddEvent"
    /\ pr' = [pr EXCEPT ![p] =
                [pr[p] EXCEPT !.nonBlocking = dests[pr[p].cwd].isEMF,
                              !.afterStop = @ \/ dests[pr[p].cwd].stopped,
                              !.pc = "enqueue"]]
    /\ UNCHANGED <<cwDests, dests, held, calls, handed, overlap>>

\* what is noted of one enqueue call
Handed(f, d) ==
    [e |-> f.e, nonBlocking |-> f.nonBlocking, op |-> f.op, call |-> f.call,
     i |-> f.i, src |-> IF f.op = "Write" THEN f.metrics[f.i] ELSE 0,
     wasEMF |-> f.wasEMF,
     isEMF |-> d.isEMF,
     switched |-> d.isEMF /\ d.mu = 0,
     stopped |-> d.stopped]

\* the enqueue call AddEvent picked
enqueue(p) ==
    /\ pr[p].pc = "enqueue"
    /\ LET d == dests[pr[p].cwd]
       IN  /\ pr[p].nonBlocking \/ AddEventEnabled(d)
           /\ dests' = [dests EXCEPT ![pr[p].cwd] =
                          IF pr[p].nonBlocking
                          THEN pusherAddEventNonBlocking(d, pr[p].e)
                          ELSE pusherAddEvent(d, pr[p].e)]
           /\ handed' = [handed EXCEPT ![pr[p].cwd] = Append(@, Handed(pr[p], d))]
    /\ pr' = [pr EXCEPT ![p] = NextItem(pr[p])]
    /\ UNCHANGED <<cwDests, held, calls, overlap>>

\* the end of Publish: "if cd.stopped"
publishReturn(p) ==
    /\ pr[p].pc = "publishReturn"
    /\ pr' = [pr EXCEPT ![p] =
                [pr[p] EXCEPT !.pc = "idle",
                    !.ret = IF dests[pr[p].cwd].stopped THEN ErrOutputStopped ELSE NilErr]]
    /\ UNCHANGED <<cwDests, dests, held, calls, handed, overlap>>

\* Close, one cwDest of the range: Stop up to cd.pusher.Stop().  A range over
\* a map that grows may or may not reach the new entries.
closeStopPusher(p, d) ==
    /\ pr[p].pc = "closeLoop"
    /\ d \in Range(cwDests) \ pr[p].seen
    /\ dests' = [dests EXCEPT ![d] = pusherStop(@)]
    /\ pr' = [pr EXCEPT ![p] = [pr[p] EXCEPT !.cwd = d, !.pc = "setStopped"]]
    /\ UNCHANGED <<cwDests, held, calls, handed, overlap>>

\* the rest of Stop: "cd.stopped = true"
setStopped(p) ==
    /\ pr[p].pc = "setStopped"
    /\ dests' = [dests EXCEPT ![pr[p].cwd].stopped = TRUE]
    /\ pr' = [pr EXCEPT ![p] = [pr[p] EXCEPT !.seen = @ \cup {pr[p].cwd},
                                             !.pc = "closeLoop"]]
    /\ UNCHANGED <<cwDests, held, calls, handed, overlap>>

\* the range of Close is over: every entry it began with has been stopped
closeReturn(p) ==
    /\ pr[p].pc = "closeLoop"
    /\ pr[p].snap \subseteq pr[p].seen
    /\ pr' = [pr EXCEPT ![p] = [pr[p] EXCEPT !.pc = "idle", !.ret = NilErr]]
    /\ UNCHANGED <<cwDests, dests, held, calls, handed, overlap>>

\* cwDest.setRetryer(r)
setRetryer(d, r) ==
    /\ d \in 1..Len(dests)
    /\ dests[d].Retryer # r
    /\ r # "DefaultRetryer"
    /\ \E p \in Procs : MayCall(p, "setRetryer")
    /\ calls' = [calls EXCEPT !["setRetryer"] = @ + 1]
    /\ dests' = [dests EXCEPT ![d].Retryer = r]
    /\ UNCHANGED <<cwDests, pr, held, handed, overlap>>

\* the pusher's background flush takes the queued events
Flush(d) ==
    /\ d \in 1..Len(dests)
    /\ ~dests[d].pStopped
    /\ dests[d].queue # << >>
    /\ dests' = [dests EXCEPT ![d].queue = << >>]
    /\ UNCHANGED <<cwDests, pr, held, calls, handed, overlap>>

\* one step of caller p
Step(p) ==
    \/ \E group \in GroupArgs, stream \in StreamArgs : CreateDest(p, group, stream)
    \/ \E metrics \in Slices(MetricsIn) : Write(p, metrics)
    \/ \E d \in held : \E events \in Slices(EventsIn) : Publish(p, d, events)
    \/ Close(p)
    \/ writeMetricAsStructuredLog(p)
    \/ getDestCreate(p)
    \/ switchToEMF(p)
    \/ pushHandler(p)
    \/ setRetryDuration(p)
    \/ publishCheck(p)
    \/ AddEvent(p)
    \/ enqueue(p)
    \/ publishReturn(p)
    \/ \E d \in Range(cwDests) : closeStopPusher(p, d)
    \/ setStopped(p)
    \/ closeReturn(p)

\* a step of the environment: the flush task, a change of the retryer
Background ==
    \/ \E d \in 1..Len(dests) : Flush(d)
    \/ \E d \in 1..Len(dests), r \in Retryers : setRetryer(d, r)

Next == (\E p \in Procs : Step(p)) \/ Background

\* callers that run concurrently
Spec == Init /\ [][Next]_vars

\* callers that run one after the other
SpecSeq == InitSeq /\ [][Next]_vars

(***************************************************************************)
(* Properties.                                                             *)
(***************************************************************************)
\* every enqueue call noted so far, with the cwDest it went to
Entries == {[d |-> d, k |-> k] : d \in 1..Len(handed), k \in 1..MaxCalls * MaxBatch}

EntryAt(x) == handed[x.d][x.k]

AllHanded == {x \in Entries : x.k <= Len(handed[x.d])}

\* the record a Write caller is working on
CurrentMetric(f) == Metrics[f.metrics[f.i]]

HasGroupTag(m) == LogGroupNameTag \in DOMAIN m.tags

\* caller p takes the step (the Go runtime ending the process is no step of
\* the callers it ends)
Moves(p) == pr'[p] # pr[p] /\ pr'[p].pc # "fatal"

\* C1: a record without the log_group_name tag is dropped: no step that
\* writeMetricAsStructuredLog takes for it adds a cwDest to cwDests or hands
\* an event to a pusher.
C1_MissingGroupDropped ==
    [][\A p \in Procs :
          (/\ pr[p].op = "Write"
           /\ pr[p].pc # "idle"
           /\ ~HasGroupTag(CurrentMetric(pr[p]))
           /\ Moves(p))
          => (cwDests' = cwDests /\ handed' = handed)]_vars

\* C2: one pusher per Target: no two of the cwDests ever constructed are for
\* the same Target.
C2_OnePusherPerTarget ==
    \A d1, d2 \in 1..Len(dests) : dests[d1].Target = dests[d2].Target => d1 = d2

\* C3: a cwDest is PLAIN when getDest constructs it, and no step takes isEMF
\* from true back to false.
C3_ModeMonotonic ==
    [][/\ \A d \in 1..Len(dests) : dests[d].isEMF => dests'[d].isEMF
       /\ \A d \in (Len(dests) + 1)..Len(dests') : ~dests'[d].isEMF]_vars

\* an EMF cwDest that has since taken a plain message through Publish and
\* has been stopped by Close
C3_Witness ==
    \E x \in AllHanded :
        /\ EntryAt(x).op = "Publish"
        /\ ~IsEMFMessage(EntryAt(x).e.msg)
        /\ EntryAt(x).isEMF
        /\ dests[x.d].isEMF
        /\ dests[x.d].stopped

\* C4: an AddEvent on a cwDest that is already stopped never ends in a call
\* that returns nil.
C4_NoSuccessAfterStop ==
    \A p \in Procs : pr[p].afterStop => pr[p].ret # NilErr

\* the enqueue calls made for the records of a Write that are the metric m
HandedFor(m) ==
    {x \in AllHanded : EntryAt(x).op = "Write" /\ Metrics[EntryAt(x).src] = m}

\* caller p is in, or has returned from, a Write and is past element k of
\* its slice
PastItem(p, k) ==
    /\ pr[p].op = "Write"
    /\ k \in 1..Len(pr[p].metrics)
    /\ pr[p].pc = "idle" \/ pr[p].i > k

\* the enqueue calls of caller p's Write for element k of its slice
HandedForItem(p, k) ==
    {x \in AllHanded : /\ EntryAt(x).op = "Write"
                       /\ EntryAt(x).call = pr[p].call
                       /\ EntryAt(x).i = k}

\* the record of the example: log_group_name=g, log_stream_name=s, value="hello"
RawRecord ==
    Metric("log", Tags2(LogGroupNameTag, Str("g"), LogStreamNameTag, Str("s")),
           Tags1(LogEntryField, StrV(Str("hello"))), 7)

Unsupported(m, k) ==
    m.fields[k].ty \notin {"int", "int32", "int64", "uint", "uint32", "uint64",
                           "float64", "bool", "string", "time.Time"}

\* field k of m is named in m's attributesInFields tag
Listed(m, k) ==
    /\ attributesInFields \in DOMAIN m.tags
    /\ \E j \in 1..Len(Split(m.tags[attributesInFields], ",")) :
          Split(m.tags[attributesInFields], ",")[j] = k

\* C6 as stated: nothing is handed to a pusher for a record that has no
\* "value" field and has a field of an unsupported type.
C6_UnsupportedFieldDropsRecord ==
    \A x \in AllHanded :
        EntryAt(x).op = "Write" =>
            LET m == Metrics[EntryAt(x).src]
            IN  ~(/\ LogEntryField \notin DOMAIN m.fields
                  /\ \E k \in DOMAIN m.fields : Unsupported(m, k))

\* C6 (amended): nothing is handed to a pusher for a record that has no
\* "value" field and has a field of an unsupported type that
\* attributesInFields does not name, in whatever order the fields are visited.
C6_UnsupportedRemainingFieldDropsRecord ==
    \A x \in AllHanded :
        EntryAt(x).op = "Write" =>
            LET m == Metrics[EntryAt(x).src]
            IN  ~(/\ LogEntryField \notin DOMAIN m.fields
                  /\ \E k \in DOMAIN m.fields : Unsupported(m, k) /\ ~Listed(m, k))

\* a Write has returned, one of its records had an unsupported field left
\* for the type switch, and no event was handed over for it
C6_Witness ==
    \E p \in Procs : \E k \in 1..MaxBatch :
        /\ PastItem(p, k)
        /\ pr[p].pc = "idle"
        /\ LET m == Metrics[pr[p].metrics[k]]
           IN  /\ LogEntryField \notin DOMAIN m.fields
               /\ \E n \in DOMAIN m.fields : Unsupported(m, n) /\ ~Listed(m, n)
               /\ Cardinality(DOMAIN m.fields) > 1
        /\ HandedForItem(p, k) = {}

\* a caller that holds the cwDest getDest gave it for its Target t
Resolved(f) ==
    \/ f.op = "CreateDest" /\ f.pc = "idle"
    \/ f.op = "Write" /\ f.pc \in {"switchToEMF", "pushHandler", "setRetryDuration",
                                   "AddEvent", "enqueue"}

\* C7: with the calls one after the other, every Target of cwDests maps to
\* the one cwDest constructed for it, there are as many cwDests as Targets
\* resolved, and a caller that resolved a Target holds the cwDest of the map.
C7_ResolveIdempotent ==
    /\ \A t \in DOMAIN cwDests : dests[cwDests[t]].Target = t
    /\ Len(dests) = Cardinality(DOMAIN cwDests)
    /\ \A p \in Procs :
          Resolved(pr[p]) => pr[p].t \in DOMAIN cwDests /\ cwDests[pr[p].t] = pr[p].cwd

\* a Target resolved by CreateDest and then twice by one Write
C7_Witness ==
    \E d \in held :
        \E x, y \in AllHanded :
            /\ x.d = d /\ y.d = d /\ x.k < y.k
            /\ EntryAt(x).op = "Write" /\ EntryAt(y).op = "Write"
            /\ Cardinality(DOMAIN cwDests) = 1

\* how many times the x-amzn-logs-format handler is on a cwDest's client
EMFHandlers(d) ==
    Cardinality({k \in 1..Len(dests[d].Handlers) : dests[d].Handlers[k] = EMFHeader})

C9_DisciplineFollowsMode ==
    \A x \in AllHanded :
        /\ EntryAt(x).nonBlocking => EntryAt(x).isEMF
        /\ ~EntryAt(x).nonBlocking => ~EntryAt(x).switched

\* the test of Publish, spelled out: first character, last character, the
\* marker with its quotes somewhere in the message
LooksLikeEMF(msg) ==
    /\ msg # << >>
    /\ msg[1] = "{"
    /\ msg[Len(msg)] = "}"
    /\ \E k \in 1..(Len(msg) - 2) :
          msg[k] = Quote /\ msg[k + 1] = "CloudWatchMetrics" /\ msg[k + 2] = Quote

\* the event the Publish caller is working on
CurrentEvent(f) == LogEvents[f.events[f.i]]

\* C10: a step of Publish calls switchToEMF exactly when it read the cwDest
\* as PLAIN and the message passes the three tests; a step of Publish that
\* changes a cwDest's mode is for such a message; and that message, and every
\* later one of the call, goes through AddEventNonBlocking on an EMF cwDest.
C10_PublishAutoDetect ==
    [][\A p \in Procs :
          pr[p].op = "Publish" /\ pr[p].pc # "idle" /\ Moves(p) =>
             LET d == pr[p].cwd
                 msg == CurrentEvent(pr[p]).msg
             IN  /\ pr[p].pc = "publishCheck" =>
                       (pr'[p].pc = "switchToEMF"
                           <=> ~dests[d].isEMF /\ LooksLikeEMF(msg))
                 /\ dests'[d].isEMF # dests[d].isEMF =>
                       LooksLikeEMF(msg) /\ dests'[d].isEMF
                 /\ (/\ pr[p].pc = "enqueue"
                     /\ \E k \in 1..pr[p].i : LooksLikeEMF(LogEvents[pr[p].events[k]].msg))
                       => pr[p].nonBlocking /\ dests[d].isEMF]_vars

\* a Publish alone on its cwDest whose first message was plain and went
\* through the blocking AddEvent, and whose second message carried the marker
\* and went through AddEventNonBlocking
C10_Witness ==
    \E d \in 1..Len(handed) :
        /\ Len(handed[d]) = 2
        /\ handed[d][1].op = "Publish" /\ handed[d][2].op = "Publish"
        /\ ~IsEMFMessage(handed[d][1].e.msg) /\ ~handed[d][1].nonBlocking
        /\ IsEMFMessage(handed[d][2].e.msg) /\ handed[d][2].nonBlocking
        /\ calls["Write"] = 0

\* a "key": of a JSON object
JSONKey(k) == <<Quote>> \o k \o <<Quote, ":">>

\* a Write caller between getTargetFromMetric and the end of
\* writeMetricAsStructuredLog for the current record
InRecord(f) ==
    /\ f.op = "Write"
    /\ f.pc \in {"getDestCreate", "switchToEMF", "pushHandler", "setRetryDuration",
                 "AddEvent", "enqueue"}

\* the stream C11 names for a record: the tag's value, or the configured
\* default without the tag
StreamOf(m) ==
    IF LogStreamNameTag \in DOMAIN m.tags THEN m.tags[LogStreamNameTag]
    ELSE LogStreamName

\* C11: for a record with the log_group_name tag, the Target has the tag's
\* value as group and, as stream, the log_stream_name tag's value or, without
\* the tag, LogStreamName; after the resolution the record has neither tag;
\* the event handed over for it goes to the cwDest of that Target and its
\* message has neither key.
C11_TargetFromTags ==
    /\ \A p \in Procs :
          InRecord(pr[p]) /\ HasGroupTag(CurrentMetric(pr[p])) =>
             /\ pr[p].t.Group = CurrentMetric(pr[p]).tags[LogGroupNameTag]
             /\ pr[p].t.Stream = StreamOf(CurrentMetric(pr[p]))
             /\ LogGroupNameTag \notin DOMAIN pr[p].m.tags
             /\ LogStreamNameTag \notin DOMAIN pr[p].m.tags
             /\ \A k \in DOMAIN pr[p].m.tags :
                   pr[p].m.tags[k] = CurrentMetric(pr[p]).tags[k]
    /\ \A x \in AllHanded :
          EntryAt(x).op = "Write" /\ HasGroupTag(Metrics[EntryAt(x).src]) =>
             LET m == Metrics[EntryAt(x).src]
             IN  /\ dests[x.d].Target.Group = m.tags[LogGroupNameTag]
                 /\ dests[x.d].Target.Stream = StreamOf(m)
                 /\ ~Contains(EntryAt(x).e.msg, JSONKey(LogGroupNameTag))
                 /\ ~Contains(EntryAt(x).e.msg, JSONKey(LogStreamNameTag))

\* one Write has handed over a JSON message for a metric with a stream tag
\* and one for a metric without it
C11_Witness ==
    \E x, y \in AllHanded :
        /\ EntryAt(x).op = "Write" /\ EntryAt(y).op = "Write"
        /\ EntryAt(x).call = EntryAt(y).call
        /\ LET mx == Metrics[EntryAt(x).src]
               my == Metrics[EntryAt(y).src]
           IN  /\ HasGroupTag(mx) /\ HasGroupTag(my)
               /\ LogStreamNameTag \in DOMAIN mx.tags
               /\ mx.tags[LogStreamNameTag] # << >>
               /\ LogStreamNameTag \notin DOMAIN my.tags
               /\ LogEntryField \notin DOMAIN mx.fields
               /\ LogEntryField \notin DOMAIN my.fields
               /\ HasPrefix(EntryAt(x).e.msg, <<"{", Quote>>)
               /\ HasPrefix(EntryAt(y).e.msg, <<"{", Quote>>)
               /\ dests[x.d].Target.Stream = Str("s")
               /\ dests[y.d].Target.Stream = LogStreamName

\* a record json.Marshal fails on: one of its float64 fields is not a number
NotANumber(m) ==
    \E k \in DOMAIN m.fields : m.fields[k].ty = "float64" /\ m.fields[k].s = Str("NaN")

\* C12: nothing is handed to a pusher for a record whose content map
\* json.Marshal fails on, and every event Write hands over for a record
\* without the "value" field has a non-empty message.
C12_MarshalFailureDropsRecord ==
    \A x \in AllHanded :
        EntryAt(x).op = "Write" /\ LogEntryField \notin DOMAIN Metrics[EntryAt(x).src].fields
           => /\ ~NotANumber(Metrics[EntryAt(x).src])
              /\ EntryAt(x).e.msg # << >>

\* the record has the "value" field, and it holds a string
HasRawValue(m) ==
    LogEntryField \in DOMAIN m.fields /\ m.fields[LogEntryField].ty = "string"

\* the tags getLogEventFromMetric copies into the content map
ContentTags(m) ==
    (DOMAIN m.tags) \ {LogGroupNameTag, LogStreamNameTag, attributesInFields}

\* msg is a JSON object that has every key of keys
ObjectWith(msg, keys) ==
    /\ HasPrefix(msg, <<"{">>)
    /\ HasSuffix(msg, <<"}">>)
    /\ \A k \in keys : Contains(msg, JSONKey(k))

\* C13 as stated: a string "value" is the message verbatim, and every other
\* record, one with a "value" that is not a string included, is handed over
\* as the JSON object of its tags and fields.
C13_TwoCases ==
    /\ \A x \in AllHanded :
          EntryAt(x).op = "Write" =>
             LET m == Metrics[EntryAt(x).src]
             IN  IF HasRawValue(m)
                 THEN EntryAt(x).e.msg = m.fields[LogEntryField].s
                 ELSE EntryAt(x).e.msg # << >> =>
                         ObjectWith(EntryAt(x).e.msg, ContentTags(m) \cup DOMAIN m.fields)
    /\ \A p \in Procs : \A k \in 1..MaxBatch :
          PastItem(p, k) =>
             LET m == Metrics[pr[p].metrics[k]]
             IN  (/\ LogEntryField \in DOMAIN m.fields
                  /\ \A n \in DOMAIN m.fields : ~Unsupported(m, n))
                    => Cardinality(HandedForItem(p, k)) = 1

\* C13 (amended): three cases.  A string "value" is the message verbatim; a
\* record whose "value" is not a string yields no event; a record without
\* the "value" field is handed over as the JSON object of its tags and
\* fields (an empty message where json.Marshal failed).
C13_ThreeCases ==
    /\ \A x \in AllHanded :
          EntryAt(x).op = "Write" =>
             LET m == Metrics[EntryAt(x).src]
             IN  IF LogEntryField \in DOMAIN m.fields
                 THEN /\ HasRawValue(m)
                      /\ EntryAt(x).e.msg = m.fields[LogEntryField].s
                 ELSE IF EntryAt(x).e.msg = << >> THEN NotANumber(m)
                      ELSE ObjectWith(EntryAt(x).e.msg,
                                      ContentTags(m) \cup DOMAIN m.fields)
    /\ \A p \in Procs : \A k \in 1..MaxBatch :
          PastItem(p, k) =>
             LET m == Metrics[pr[p].metrics[k]]
             IN  /\ HasRawValue(m) => Cardinality(HandedForItem(p, k)) = 1
                 /\ LogEntryField \in DOMAIN m.fields /\ ~HasRawValue(m)
                       => HandedForItem(p, k) = {}

\* a Write has returned whose slice had a record with a string "value",
\* handed over verbatim, and a record with an integer "value", dropped
C13_Witness ==
    \E p \in Procs : \E j, k \in 1..MaxBatch :
        /\ PastItem(p, j) /\ PastItem(p, k)
        /\ pr[p].pc = "idle"
        /\ HasRawValue(Metrics[pr[p].metrics[j]])
        /\ HandedForItem(p, j) # {}
        /\ LogEntryField \in DOMAIN Metrics[pr[p].metrics[k]].fields
        /\ ~HasRawValue(Metrics[pr[p].metrics[k]])
        /\ HandedForItem(p, k) = {}

\* Close has been called and has returned
CloseReturned ==
    /\ calls["Close"] > 0
    /\ \A p \in Procs : pr[p].op = "Close" => pr[p].pc = "idle"

\* C14: once Close has returned, every cwDest of cwDests is stopped and so is
\* its pusher, whichever call put it there; stopped is set only by the Stop
\* of Close and is never cleared.
C14_CloseStopsAll ==
    [][/\ CloseReturned' =>
             \A d \in Range(cwDests') : dests'[d].stopped /\ dests'[d].pStopped
       /\ \A d \in 1..Len(dests) :
             /\ dests[d].stopped => dests'[d].stopped
             /\ dests'[d].stopped # dests[d].stopped =>
                   \E p \in Procs : /\ pr[p].op = "Close"
                                    /\ pr[p].pc = "setStopped"
                                    /\ pr[p].cwd = d
                                    /\ Moves(p)]_vars

ListedNames(m) ==
    {Split(m.tags[attributesInFields], ",")[j] :
        j \in 1..Len(Split(m.tags[attributesInFields], ","))}

\* "k": followed by the encoding of the field value v as it is, without the
\* conversion of the type switch
KeyWithField(k, v) ==
    JSONKey(k) \o (CASE v.ty = "string" -> <<Quote>> \o v.s \o <<Quote>>
                     [] v.ty = "time.Time" -> <<Quote, "T", ToString(v.n), Quote>>
                     [] OTHER -> <<ToString(v.n)>>)

\* "k": followed by the encoding of the tag value s
KeyWithTag(k, s) == JSONKey(k) \o <<Quote>> \o s \o <<Quote>>

\* the events Write handed over for metrics that carry attributesInFields
PromotedEntries ==
    {x \in AllHanded :
        /\ EntryAt(x).op = "Write"
        /\ LogEntryField \notin DOMAIN Metrics[EntryAt(x).src].fields
        /\ attributesInFields \in DOMAIN Metrics[EntryAt(x).src].tags
        /\ EntryAt(x).e.msg # << >>}

\* C16 as stated: every listed name that is a field is in the content with
\* the field's own value, a tag of the same name or not; listed names that
\* are no fields add nothing; attributesInFields is not a key of the content.
C16_PromotedVerbatim ==
    \A x \in PromotedEntries :
        LET m == Metrics[EntryAt(x).src]
            msg == EntryAt(x).e.msg
        IN  /\ \A k \in ListedNames(m) \cap DOMAIN m.fields :
                  Contains(msg, KeyWithField(k, m.fields[k]))
            /\ \A k \in ListedNames(m) \ (DOMAIN m.fields \cup DOMAIN m.tags) :
                  ~Contains(msg, JSONKey(k))
            /\ attributesInFields \notin DOMAIN m.fields
                  => ~Contains(msg, JSONKey(attributesInFields))

\* C16 (amended): every listed name that is a field and not also a tag is in
\* the content with the field's own value; where a tag has the same name the
\* content has the tag's value; listed names that are no fields add
\* nothing; attributesInFields is not a key of the content unless a field
\* has that name.
C16_PromotedUnlessTag ==
    \A x \in PromotedEntries :
        LET m == Metrics[EntryAt(x).src]
            msg == EntryAt(x).e.msg
        IN  /\ \A k \in (ListedNames(m) \cap DOMAIN m.fields) \ ContentTags(m) :
                  Contains(msg, KeyWithField(k, m.fields[k]))
            /\ \A k \in (ListedNames(m) \cap DOMAIN m.fields) \cap ContentTags(m) :
                  /\ Contains(msg, KeyWithTag(k, m.tags[k]))
                  /\ ~Contains(msg, KeyWithField(k, m.fields[k]))
            /\ \A k \in ListedNames(m) \ (DOMAIN m.fields \cup DOMAIN m.tags) :
                  ~Contains(msg, JSONKey(k))
            /\ attributesInFields \notin DOMAIN m.fields
                  => ~Contains(msg, JSONKey(attributesInFields))

\* a message with a promoted time.Time in its own encoding, a promoted field
\* replaced by the tag of its name, and a field left to the type switch
C16_Witness ==
    \E x \in PromotedEntries :
        /\ Contains(EntryAt(x).e.msg, <<Quote, "started", Quote, ":", Quote, "T">>)
        /\ Contains(EntryAt(x).e.msg, KeyWithTag(Str("cpu_usage_idle"), Str("busy")))
        /\ Contains(EntryAt(x).e.msg, <<Quote, "raw", Quote, ":", "7">>)

\* a record getLogEventFromMetric returns nil for: a "value" that is not a
\* string, or no "value" and a field of an unsupported type left for the
\* type switch
NoEvent(m) ==
    \/ LogEntryField \in DOMAIN m.fields /\ ~HasRawValue(m)
    \/ /\ LogEntryField \notin DOMAIN m.fields
       /\ \E k \in DOMAIN m.fields : Unsupported(m, k) /\ ~Listed(m, k)

\* the records C17 calls dropped
Dropped(m) == NoEvent(m) \/ ~HasGroupTag(m)

\* mode, header handlers and retry window of the cwDests are as they were
SameDest(d) ==
    /\ dests'[d].isEMF = dests[d].isEMF
    /\ dests'[d].Handlers = dests[d].Handlers
    /\ dests'[d].RetryDuration = dests[d].RetryDuration

C18_PathsAgreeOnTarget ==
    /\ \A p \in Procs :
          (/\ InRecord(pr[p])
           /\ HasGroupTag(CurrentMetric(pr[p]))
           /\ LogStreamNameTag \in DOMAIN CurrentMetric(pr[p]).tags)
          => pr[p].t = CreateDestTarget(CurrentMetric(pr[p]).tags[LogGroupNameTag],
                                        CurrentMetric(pr[p]).tags[LogStreamNameTag])
    /\ LogStreamName # << >> =>
          \A t \in DOMAIN cwDests : t.Group # << >> => t.Stream # << >>

\* the enqueue calls of the call with serial number c
CallEntries(c) == {x \in AllHanded : EntryAt(x).call = c}

\* the positions in the slice of the elements handed over by call c
HandedItems(c) == {EntryAt(x).i : x \in CallEntries(c)}

\* C19: within one call of Publish or Write no element of the slice is
\* handed over twice, and elements that reach the same pusher reach it in
\* slice order; a Publish working on element i has handed over exactly the
\* elements before it, each as the event of the slice, and all of them when
\* it returns; a Write working on record i has handed over nothing but
\* events of the records before it, each made from its own record.
C19_SliceOrder ==
    /\ \A x, y \in AllHanded :
          EntryAt(x).call = EntryAt(y).call /\ x # y =>
             /\ EntryAt(x).i # EntryAt(y).i
             /\ x.d = y.d /\ x.k < y.k => EntryAt(x).i < EntryAt(y).i
    /\ \A p \in Procs :
          pr[p].op = "Publish" =>
             /\ HandedItems(pr[p].call) =
                   IF pr[p].pc \in {"publishReturn", "idle"}
                   THEN 1..Len(pr[p].events)
                   ELSE 1..(pr[p].i - 1)
             /\ \A x \in CallEntries(pr[p].call) :
                   /\ x.d = pr[p].cwd
                   /\ EntryAt(x).e = LogEvents[pr[p].events[EntryAt(x).i]]
    /\ \A p \in Procs :
          pr[p].op = "Write" =>
             /\ HandedItems(pr[p].call) \subseteq
                   IF pr[p].pc = "idle" THEN 1..Len(pr[p].metrics)
                   ELSE 1..(pr[p].i - 1)
             /\ \A x \in CallEntries(pr[p].call) :
                   /\ EntryAt(x).src = pr[p].metrics[EntryAt(x).i]
                   /\ EntryAt(x).e.t = Metrics[EntryAt(x).src].time

\* a Publish of a plain message and then a message with the marker, the
\* switch to EMF in between, and a Write of two records for different
\* Targets, all handed over
C19_Witness ==
    /\ \E d \in held : \E x, y \in AllHanded :
          /\ x.d = d /\ y.d = d /\ x.k < y.k
          /\ EntryAt(x).op = "Publish" /\ EntryAt(y).op = "Publish"
          /\ ~EntryAt(x).nonBlocking /\ ~EntryAt(x).isEMF
          /\ EntryAt(y).nonBlocking /\ IsEMFMessage(EntryAt(y).e.msg)
    /\ \E x, y \in AllHanded :
          /\ x.d # y.d
          /\ EntryAt(x).op = "Write" /\ EntryAt(y).op = "Write"
          /\ EntryAt(x).call = EntryAt(y).call
          /\ EntryAt(x).i = 1 /\ EntryAt(y).i = 2

============================================================================
